---- MODULE Spec2Model ----
(***************************************************************************)
(* Model of mlx_server.py: the simulated thermal sensor (SimulatedSensor)  *)
(* and the per-connection websocket handler frame_producer with its two    *)
(* cooperating coroutines send_frames and receive_messages.                *)
(*                                                                         *)
(* Temperatures are integers in thousandths of a degree Celsius.  The      *)
(* phase t is counted in steps of 0.05 (t = 3 stands for 0.15).            *)
(***************************************************************************)
EXTENDS Integers, Sequences, FiniteSets, TLC

VARIABLES
    sensor,                   \* the SimulatedSensor object of the session
    call,                     \* the last call made on the sensor and its result
    state,                    \* "Handshake", "Streaming" or "Closed"
    current_simulation_mode,  \* local of frame_producer
    current_foot,             \* local of frame_producer
    running,                  \* local of frame_producer, shared by both loops
    pcS,                      \* position of send_frames
    pcR,                      \* position of receive_messages
    conn,                     \* the websocket: "open" or "closed"
    inbox,                    \* messages sent by the client, not yet received
    payload,                  \* the payload send_frames is sending
    now,                      \* time.time(), in milliseconds
    t0,                       \* local of send_frames: start of the tick
    wait,                     \* local of send_frames: argument of sleep
    hist                      \* history of the session (observations only)

vars == <<sensor, call, state, current_simulation_mode, current_foot, running,
          pcS, pcR, conn, inbox, payload, now, t0, wait, hist>>

sessionVars == <<state, current_simulation_mode, current_foot, running,
                 pcS, pcR, conn, inbox, payload, now, t0, wait, hist>>

-----------------------------------------------------------------------------
(* Bounds of the model *)

Rows == 1          \* rows of the matrix (32 in the source)
Cols == 3          \* columns of the matrix (24 in the source)
MaxTicks == 2      \* calls of get_frame explored
MaxMsgs == 2       \* messages the client sends in one session
MaxInbox == 1      \* messages waiting in the websocket's receive buffer

-----------------------------------------------------------------------------
(* Program constants *)

temp_min == 28000
temp_max == 38000
noise_std == 150
FPS == 4
INTERVAL == 1000 \div FPS      \* milliseconds

VALID_SIMULATION_MODES == {"baja_diferencia", "alta_diferencia"}
VALID_FEET == {"izquierdo", "derecho"}

None == "None"                 \* Python's None
Absent == "Absent"             \* key not in the dict

\* Python truthiness of an argument of set_config
Truthy(v) == v # None /\ v # ""

\* values a caller may pass for a mode or a foot
ModeArgs == VALID_SIMULATION_MODES \cup {None, "", "media_diferencia"}
FootArgs == VALID_FEET \cup {None, "", "ambos"}

\* what Image.open finds: no file, a file of one grey level, a picture
ImageOutcomes == {"absent", "uniform", "picture"}

SetMin(S) == CHOOSE x \in S : \A y \in S : x <= y
SetMax(S) == CHOOSE x \in S : \A y \in S : x >= y

\* grey level (0..255) of the resized image at pixel (i, j); the files of
\* the two feet are different pictures
Gray(image_path, img, i, j) ==
    IF img = "uniform" THEN 128
    ELSE IF image_path = "pie_derecho.png"
         THEN (40 + 60 * i + 25 * j * j) % 256
         ELSE (10 + 60 * i + 25 * j) % 256

-----------------------------------------------------------------------------
(* SimulatedSensor *)

\* _load_image with the shape of line 57 transposed
load_image_transposed(self, image_path, img) ==
    IF img = "absent"
    THEN [self EXCEPT !.loaded = image_path, !.base =
            [i \in 1..self.cols |-> [j \in 1..self.rows |->
                (self.temp_min + self.temp_max) \div 2]]]
    ELSE LET arr == [i \in 1..self.rows |-> [j \in 1..self.cols |->
                        Gray(image_path, img, i, j)]]
             vals == {arr[i][j] : i \in 1..self.rows, j \in 1..self.cols}
             amin == SetMin(vals)
             amax == SetMax(vals)
         IN  [self EXCEPT !.loaded = image_path, !.base =
                [i \in 1..self.rows |-> [j \in 1..self.cols |->
                    self.temp_min
                    + ((self.temp_max - self.temp_min)
                       * (IF amax = amin THEN 0
                          ELSE (1000 * (arr[i][j] - amin)) \div (amax - amin)))
                      \div 1000]]]

\* the field loaded of the result is the path the call was made with
load_image(self, image_path, img) ==
    IF img = "absent"
    THEN [self EXCEPT !.loaded = image_path, !.base =
            [i \in 1..self.rows |-> [j \in 1..self.cols |->
                (self.temp_min + self.temp_max) \div 2]]]
    ELSE LET arr == [i \in 1..self.rows |-> [j \in 1..self.cols |->
                        Gray(image_path, img, i, j)]]
             vals == {arr[i][j] : i \in 1..self.rows, j \in 1..self.cols}
             amin == SetMin(vals)
             amax == SetMax(vals)
             norm == [i \in 1..self.rows |-> [j \in 1..self.cols |->
                        IF amax = amin THEN 0
                        ELSE (1000 * (arr[i][j] - amin)) \div (amax - amin)]]
         IN  [self EXCEPT !.loaded = image_path, !.base =
                [i \in 1..self.rows |-> [j \in 1..self.cols |->
                    self.temp_min
                    + ((self.temp_max - self.temp_min) * norm[i][j]) \div 1000]]]

\* SimulatedSensor(image_path, rows, cols)
NewSensor(image_path, rows, cols, img) ==
    load_image([rows |-> rows, cols |-> cols,
                temp_min |-> temp_min, temp_max |-> temp_max,
                noise_std |-> noise_std, t |-> 0,
                image_path |-> image_path,
                simulation_mode |-> "baja_diferencia",
                foot |-> "izquierdo",
                base |-> <<>>, loaded |-> ""],
               image_path, img)

\* the map of lines 80-83 with the two files exchanged
image_map_exchanged == [f \in VALID_FEET |->
                IF f = "izquierdo" THEN "pie_derecho.png" ELSE "pie_izquierdo.png"]

image_map == [f \in VALID_FEET |->
                IF f = "izquierdo" THEN "pie_izquierdo.png" ELSE "pie_derecho.png"]

\* set_config without the tests of membership of lines 69 and 75
set_config_unchecked(self, simulation_mode, foot, img) ==
    LET modeChanges == /\ Truthy(simulation_mode)
                       /\ self.simulation_mode # simulation_mode
        s1 == IF modeChanges
              THEN [self EXCEPT !.simulation_mode = simulation_mode]
              ELSE self
        footChanges == /\ Truthy(foot)
                       /\ s1.foot # foot
        s2 == IF footChanges THEN [s1 EXCEPT !.foot = foot] ELSE s1
        image_path == IF footChanges
                      THEN (IF foot = "derecho" THEN "pie_derecho.png"
                            ELSE "pie_izquierdo.png")
                      ELSE s2.image_path
        reload == footChanges /\ image_path # s2.image_path
        s3 == IF reload
              THEN load_image([s2 EXCEPT !.image_path = image_path],
                              image_path, img)
              ELSE s2
    IN  [self |-> s3, changed |-> modeChanges \/ footChanges,
         reloaded |-> reload]

\* set_config without lines 69-73: a new mode is never stored
set_config_mode_ignored(self, simulation_mode, foot, img) ==
    set_config_unchecked(self, None,
                         IF foot \in VALID_FEET THEN foot ELSE None, img)

\* set_config without line 87: the path of a new foot is stored, its image
\* is not loaded
set_config_path_only(self, simulation_mode, foot, img) ==
    LET modeChanges == /\ Truthy(simulation_mode)
                       /\ simulation_mode \in VALID_SIMULATION_MODES
                       /\ self.simulation_mode # simulation_mode
        s1 == IF modeChanges
              THEN [self EXCEPT !.simulation_mode = simulation_mode]
              ELSE self
        footChanges == /\ Truthy(foot)
                       /\ foot \in VALID_FEET
                       /\ s1.foot # foot
        s2 == IF footChanges
              THEN [s1 EXCEPT !.foot = foot, !.image_path = image_map[foot]]
              ELSE s1
    IN  [self |-> s2, changed |-> modeChanges \/ footChanges,
         reloaded |-> FALSE]

\* set_config without the comparisons of lines 70, 76 and 85: a recognized
\* value is stored and the image loaded even when nothing changes
set_config_always_reload(self, simulation_mode, foot, img) ==
    LET modeOk == /\ Truthy(simulation_mode)
                  /\ simulation_mode \in VALID_SIMULATION_MODES
        s1 == IF modeOk
              THEN [self EXCEPT !.simulation_mode = simulation_mode]
              ELSE self
        footOk == Truthy(foot) /\ foot \in VALID_FEET
        s2 == IF footOk
              THEN load_image([s1 EXCEPT !.foot = foot,
                                         !.image_path = image_map[foot]],
                              image_map[foot], img)
              ELSE s1
    IN  [self |-> s2, changed |-> modeOk \/ footOk, reloaded |-> footOk]

\* returns the sensor after the call, the returned flag, and whether
\* _load_image was called
set_config(self, simulation_mode, foot, img) ==
    LET modeChanges == /\ Truthy(simulation_mode)
                       /\ simulation_mode \in VALID_SIMULATION_MODES
                       /\ self.simulation_mode # simulation_mode
        s1 == IF modeChanges
              THEN [self EXCEPT !.simulation_mode = simulation_mode]
              ELSE self
        footChanges == /\ Truthy(foot)
                       /\ foot \in VALID_FEET
                       /\ s1.foot # foot
        s2 == IF footChanges THEN [s1 EXCEPT !.foot = foot] ELSE s1
        image_path == IF footChanges THEN image_map[foot] ELSE s2.image_path
        reload == footChanges /\ image_path # s2.image_path
        s3 == IF reload
              THEN load_image([s2 EXCEPT !.image_path = image_path],
                              image_path, img)
              ELSE s2
    IN  [self |-> s3, changed |-> modeChanges \/ footChanges,
         reloaded |-> reload]

\* the offset the docstring of lines 109-111 describes: in alta_diferencia
\* only the pixels hotter than the middle of the range are lowered
calculate_temperature_offset_hot_zone(self) ==
    LET rows == Len(self.base)
        cols == Len(self.base[1])
    IN  [i \in 1..rows |-> [j \in 1..cols |->
            IF self.simulation_mode = "baja_diferencia"
            THEN (IF self.foot = "izquierdo" THEN -300 ELSE 300)
            ELSE (IF self.foot = "izquierdo"
                     /\ 2 * self.base[i][j] > self.temp_min + self.temp_max
                  THEN -1500 ELSE 0)]]

calculate_temperature_offset(self) ==
    LET rows == Len(self.base)
        cols == Len(self.base[1])
        v == IF self.simulation_mode = "baja_diferencia"
             THEN (IF self.foot = "izquierdo" THEN -300 ELSE 300)
             ELSE (IF self.foot = "izquierdo" THEN -1500 ELSE 0)
    IN  [i \in 1..rows |-> [j \in 1..cols |-> v]]

\* 0.3 * sin(t) in thousandths of a degree, for t = 0.05 * k, k = 1..12
DriftTable == <<15, 30, 45, 60, 74, 89, 103, 117, 130, 144, 157, 169>>
Drift(t) == DriftTable[t]

\* the draws np.random.normal can make that the model explores: a field of
\* the shape of the base matrix
NoiseFields(base) ==
    LET rows == Len(base)
        cols == Len(base[1])
    IN  {[i \in 1..rows |-> [j \in 1..cols |-> v]] : v \in {0, noise_std}}
        \cup {[i \in 1..rows |-> [j \in 1..cols |->
                 IF (i + j) % 2 = 0 THEN noise_std ELSE 0 - noise_std]]}

\* get_frame without the offset of lines 103 and 105
get_frame_no_offset(self, noise) ==
    LET t1 == self.t + 1
        drift == Drift(t1)
        frame == [i \in 1..Len(self.base) |-> [j \in 1..Len(self.base[i]) |->
                    self.base[i][j] + drift + noise[i][j]]]
    IN  [self |-> [self EXCEPT !.t = t1], frame |-> frame]

get_frame(self, noise) ==
    LET t1 == self.t + 1
        drift == Drift(t1)
        temp_offset == calculate_temperature_offset(self)
        frame == [i \in 1..Len(self.base) |-> [j \in 1..Len(self.base[i]) |->
                    self.base[i][j] + drift + noise[i][j] + temp_offset[i][j]]]
    IN  [self |-> [self EXCEPT !.t = t1], frame |-> frame]

\* frame.astype(float).ravel().tolist(): row-major flattening
RECURSIVE ravel(_)
ravel(frame) ==
    IF frame = <<>> THEN <<>> ELSE Head(frame) \o ravel(Tail(frame))

-----------------------------------------------------------------------------
(* Messages of the client *)

ModeVals == VALID_SIMULATION_MODES \cup {Absent, "media_diferencia"}
FootVals == VALID_FEET \cup {Absent, "ambos"}

\* kind "object": the text of a JSON object with the two optional keys;
\* kind "value": the text of a JSON value that is not an object ("[1, 2]");
\* kind "garbage": a text that is not JSON ("hola");
\* kind "bytes": a binary frame that is not valid UTF-8 (b"\xff")
Messages ==
    {[kind |-> "object", simulation_mode |-> m, foot |-> f] :
        m \in ModeVals, f \in FootVals}
    \cup {[kind |-> k, simulation_mode |-> Absent, foot |-> Absent] :
        k \in {"value", "garbage", "bytes"}}

\* json.loads(message): the exception it raises, or the value it returns
json_loads(message) ==
    CASE message.kind = "object" ->
            [exc |-> "none", isdict |-> TRUE,
             simulation_mode |-> message.simulation_mode, foot |-> message.foot]
      [] message.kind = "value" ->
            [exc |-> "none", isdict |-> FALSE,
             simulation_mode |-> Absent, foot |-> Absent]
      [] message.kind = "garbage" ->
            [exc |-> "JSONDecodeError", isdict |-> FALSE,
             simulation_mode |-> Absent, foot |-> Absent]
      [] OTHER ->
            [exc |-> "UnicodeDecodeError", isdict |-> FALSE,
             simulation_mode |-> Absent, foot |-> Absent]

-----------------------------------------------------------------------------
(* frame_producer: the body of the isinstance(msg_data, dict) branches *)

\* the initial message, with lines 251-255 missing: the foot is not read
HandshakeApply_mode_only(msg_data, cm, cf, s, img) ==
    LET okMode == /\ msg_data.simulation_mode # Absent
                  /\ msg_data.simulation_mode \in VALID_SIMULATION_MODES
        cm1 == IF okMode THEN msg_data.simulation_mode ELSE cm
        s1 == IF okMode
              THEN set_config(s, msg_data.simulation_mode, None, img).self
              ELSE s
    IN  [current_simulation_mode |-> cm1, current_foot |-> cf, sensor |-> s1]

\* lines 245-255: the initial message
HandshakeApply(msg_data, cm, cf, s, img) ==
    LET okMode == /\ msg_data.simulation_mode # Absent
                  /\ msg_data.simulation_mode \in VALID_SIMULATION_MODES
        cm1 == IF okMode THEN msg_data.simulation_mode ELSE cm
        s1 == IF okMode
              THEN set_config(s, msg_data.simulation_mode, None, img).self
              ELSE s
        okFoot == /\ msg_data.foot # Absent
                  /\ msg_data.foot \in VALID_FEET
        cf1 == IF okFoot THEN msg_data.foot ELSE cf
        s2 == IF okFoot
              THEN set_config(s1, None, msg_data.foot, img).self
              ELSE s1
    IN  [current_simulation_mode |-> cm1, current_foot |-> cf1, sensor |-> s2]

\* a message during streaming, with "elif" in line 213: the foot is read
\* only when the message has no simulation_mode
ReceiveApply_elif(msg_data, cm, cf, s, img) ==
    LET hasMode == msg_data.simulation_mode # Absent
        okMode == /\ hasMode
                  /\ msg_data.simulation_mode \in VALID_SIMULATION_MODES
        cm1 == IF okMode THEN msg_data.simulation_mode ELSE cm
        s1 == IF okMode
              THEN set_config(s, msg_data.simulation_mode, None, img).self
              ELSE s
        okFoot == /\ ~hasMode
                  /\ msg_data.foot # Absent
                  /\ msg_data.foot \in VALID_FEET
        cf1 == IF okFoot THEN msg_data.foot ELSE cf
        s2 == IF okFoot
              THEN set_config(s1, None, msg_data.foot, img).self
              ELSE s1
    IN  [current_simulation_mode |-> cm1, current_foot |-> cf1, sensor |-> s2,
         changed |-> okMode \/ okFoot]

\* a message during streaming, applied only when every field it has is valid
ReceiveApply_all_or_nothing(msg_data, cm, cf, s, img) ==
    LET bad == \/ /\ msg_data.simulation_mode # Absent
                  /\ msg_data.simulation_mode \notin VALID_SIMULATION_MODES
               \/ /\ msg_data.foot # Absent
                  /\ msg_data.foot \notin VALID_FEET
        okMode == ~bad /\ msg_data.simulation_mode # Absent
        cm1 == IF okMode THEN msg_data.simulation_mode ELSE cm
        s1 == IF okMode
              THEN set_config(s, msg_data.simulation_mode, None, img).self
              ELSE s
        okFoot == ~bad /\ msg_data.foot # Absent
        cf1 == IF okFoot THEN msg_data.foot ELSE cf
        s2 == IF okFoot
              THEN set_config(s1, None, msg_data.foot, img).self
              ELSE s1
    IN  [current_simulation_mode |-> cm1, current_foot |-> cf1, sensor |-> s2,
         changed |-> okMode \/ okFoot]

\* a message during streaming, without the tests of lines 205 and 215: the
\* session's variables take whatever value the message has
ReceiveApply_unvalidated(msg_data, cm, cf, s, img) ==
    LET hasMode == msg_data.simulation_mode # Absent
        cm1 == IF hasMode THEN msg_data.simulation_mode ELSE cm
        s1 == IF hasMode
              THEN set_config(s, msg_data.simulation_mode, None, img).self
              ELSE s
        hasFoot == msg_data.foot # Absent
        cf1 == IF hasFoot THEN msg_data.foot ELSE cf
        s2 == IF hasFoot
              THEN set_config(s1, None, msg_data.foot, img).self
              ELSE s1
    IN  [current_simulation_mode |-> cm1, current_foot |-> cf1, sensor |-> s2,
         changed |-> hasMode \/ hasFoot]

\* lines 200-223 without the calls of lines 207 and 216: the session's values
\* change, the sensor's do not
ReceiveApply_tags_only(msg_data, cm, cf, s, img) ==
    LET okMode == /\ msg_data.simulation_mode # Absent
                  /\ msg_data.simulation_mode \in VALID_SIMULATION_MODES
        okFoot == /\ msg_data.foot # Absent
                  /\ msg_data.foot \in VALID_FEET
    IN  [current_simulation_mode |->
            IF okMode THEN msg_data.simulation_mode ELSE cm,
         current_foot |-> IF okFoot THEN msg_data.foot ELSE cf,
         sensor |-> s, changed |-> okMode \/ okFoot]

\* lines 200-223 where an unrecognized value restores the default instead of
\* being skipped
ReceiveApply_reset_on_invalid(msg_data, cm, cf, s, img) ==
    LET hasMode == msg_data.simulation_mode # Absent
        sim_mode == IF msg_data.simulation_mode \in VALID_SIMULATION_MODES
                    THEN msg_data.simulation_mode ELSE "baja_diferencia"
        cm1 == IF hasMode THEN sim_mode ELSE cm
        s1 == IF hasMode THEN set_config(s, sim_mode, None, img).self ELSE s
        hasFoot == msg_data.foot # Absent
        foot == IF msg_data.foot \in VALID_FEET
                THEN msg_data.foot ELSE "izquierdo"
        cf1 == IF hasFoot THEN foot ELSE cf
        s2 == IF hasFoot THEN set_config(s1, None, foot, img).self ELSE s1
    IN  [current_simulation_mode |-> cm1, current_foot |-> cf1, sensor |-> s2,
         changed |-> hasMode \/ hasFoot]

\* lines 200-223: a message during streaming
ReceiveApply(msg_data, cm, cf, s, img) ==
    LET okMode == /\ msg_data.simulation_mode # Absent
                  /\ msg_data.simulation_mode \in VALID_SIMULATION_MODES
        cm1 == IF okMode THEN msg_data.simulation_mode ELSE cm
        s1 == IF okMode
              THEN set_config(s, msg_data.simulation_mode, None, img).self
              ELSE s
        okFoot == /\ msg_data.foot # Absent
                  /\ msg_data.foot \in VALID_FEET
        cf1 == IF okFoot THEN msg_data.foot ELSE cf
        s2 == IF okFoot
              THEN set_config(s1, None, msg_data.foot, img).self
              ELSE s1
    IN  [current_simulation_mode |-> cm1, current_foot |-> cf1, sensor |-> s2,
         changed |-> okMode \/ okFoot]

-----------------------------------------------------------------------------
(* State of a session *)

\* the value a field has after a message: the message's if recognized
After(v, valid, old) == IF v \in valid THEN v ELSE old

\* the configuration after the messages msgs, in their order, from cfg
RECURSIVE AfterAll(_, _)
AfterAll(cfg, msgs) ==
    IF msgs = <<>> THEN cfg
    ELSE AfterAll([mode |-> After(Head(msgs).simulation_mode,
                                  VALID_SIMULATION_MODES, cfg.mode),
                   foot |-> After(Head(msgs).foot, VALID_FEET, cfg.foot)],
                  Tail(msgs))

NoMsg == [kind |-> "none", simulation_mode |-> Absent, foot |-> Absent]

NoPayload == [simulation_mode |-> "", foot |-> "", timestamp |-> 0,
              rows |-> 0, cols |-> 0, data |-> <<>>]

\* op: the method called; simulation_mode, foot: its arguments; pre: the
\* sensor before the call; changed: what set_config returned; reloaded:
\* whether it called _load_image; frame, noise: what get_frame returned and
\* the noise it drew; prev_op, prev_mode, prev_foot: the call before
NoCall == [op |-> "none", simulation_mode |-> None, foot |-> None,
           pre |-> <<>>, changed |-> FALSE, reloaded |-> FALSE,
           frame |-> <<>>, noise |-> <<>>,
           prev_op |-> "none", prev_mode |-> None, prev_foot |-> None]

\* what is known of the last frame get_frame generated: its timestamp and tags, the
\* sensor's configuration it was computed from, the offset it contains, and
\* the number n of inbound messages handled before it
NoFrame == [t |-> 0, timestamp |-> 0, simulation_mode |-> "", foot |-> "",
            sensor_mode |-> "", sensor_foot |-> "", offset |-> 0, n |-> 0]

\* the last wait for an inbound message that ended (src: "hs_timeout",
\* "hs_closed", "hs_fault", "hs_message" for the handshake, "message" for
\* receive_messages), the message it returned, and the configuration of
\* the session and of the sensor before it
Last(src, msg) ==
    [src |-> src, msg |-> msg,
     old_mode |-> current_simulation_mode, old_foot |-> current_foot,
     old_sensor_mode |-> sensor.simulation_mode,
     old_sensor_foot |-> sensor.foot]

\* durations, in milliseconds, of the two parts of a tick
BuildTimes == {50}
SendTimes == {50}

\* by how much a sleep ends after its time
SleepLates == {0}

\* what the session finds on disk when it loads an image
SessionImages == {"absent", "picture"}

\* the noise fields the session's frames are drawn with
SessionNoise(base) ==
    {n \in NoiseFields(base) : n[1][1] = noise_std}

\* prev: the start and the timestamp of the tick before the last; elapsed:
\* the time the last completed tick measured;
\* arr: the last recognized mode and foot among the messages the client has
\* sent, in the order of their arrival (the defaults if none);
\* sent: messages the client has sent; causes: why running was cleared by a
\* loop ("transport": ConnectionClosed or an exception of send or recv,
\* "content": an exception raised while handling a message)
InitHist == [sent |-> 0,
             last |-> [src |-> "none", msg |-> NoMsg,
                       old_mode |-> "", old_foot |-> "",
                       old_sensor_mode |-> "", old_sensor_foot |-> ""],
             causes |-> {}, frame |-> NoFrame,
             prev |-> [t0 |-> 0, timestamp |-> 0], elapsed |-> 0,
             arr |-> [mode |-> "baja_diferencia", foot |-> "izquierdo"]]

\* inbound messages handled so far
Received == hist.sent - Len(inbox)

\* lines 150-159: the state of frame_producer before the handshake
Init ==
    /\ \E img \in SessionImages :
          sensor = set_config(NewSensor("pie_izquierdo.png", Rows, Cols, img),
                              "baja_diferencia", "izquierdo", img).self
    /\ call = NoCall
    /\ state = "Handshake"
    /\ current_simulation_mode = "baja_diferencia"
    /\ current_foot = "izquierdo"
    /\ running = TRUE
    /\ pcS = "idle"
    /\ pcR = "idle"
    /\ conn = "open"
    /\ inbox = <<>>
    /\ payload = NoPayload
    /\ now = 0
    /\ t0 = 0
    /\ wait = 0
    /\ hist = InitHist

-----------------------------------------------------------------------------
(* The client *)

\* the client sends one of the messages of msgs
ClientSendIn(msgs) ==
    /\ state # "Closed"
    /\ conn = "open"
    /\ Len(inbox) < MaxInbox
    /\ hist.sent < MaxMsgs
    /\ \E m \in msgs :
          /\ inbox' = Append(inbox, m)
          /\ hist' = [hist EXCEPT !.sent = @ + 1,
                                   !.arr = AfterAll(@, <<m>>)]
    /\ UNCHANGED <<sensor, call, state, current_simulation_mode, current_foot,
                   running, pcS, pcR, conn, payload, now, t0, wait>>

ClientSend == ClientSendIn(Messages)

ClientClose ==
    /\ state # "Closed"
    /\ conn = "open"
    /\ conn' = "closed"
    /\ UNCHANGED <<sensor, call, state, current_simulation_mode, current_foot,
                   running, pcS, pcR, inbox, payload, now, t0, wait, hist>>

-----------------------------------------------------------------------------
(* frame_producer, lines 237-277 *)

\* the handshake ended without an exception: gather starts both coroutines
StartStreaming(outcome, msg, cm, cf, s) ==
    /\ state' = "Streaming"
    /\ current_simulation_mode' = cm
    /\ current_foot' = cf
    /\ sensor' = s
    /\ pcS' = "start"
    /\ pcR' = "start"
    /\ hist' = [hist EXCEPT !.last = Last(outcome, msg)]
    /\ UNCHANGED running

\* the handshake raised: the outer except prints, finally clears running
AbortHandshake(outcome, msg) ==
    /\ state' = "Closed"
    /\ running' = FALSE
    /\ hist' = [hist EXCEPT !.last = Last(outcome, msg)]
    /\ UNCHANGED <<current_simulation_mode, current_foot, sensor, pcS, pcR>>

Handshake ==
    /\ state = "Handshake"
    /\ \/ /\ inbox # <<>>
          /\ inbox' = Tail(inbox)
          /\ LET initial_message == Head(inbox)
                 msg_data == json_loads(initial_message)
             IN  CASE msg_data.exc = "JSONDecodeError" ->
                        StartStreaming("hs_message", initial_message,
                                       current_simulation_mode, current_foot,
                                       sensor)
                   [] msg_data.exc = "UnicodeDecodeError" ->
                        AbortHandshake("hs_message", initial_message)
                   [] msg_data.exc = "none" /\ ~msg_data.isdict ->
                        StartStreaming("hs_message", initial_message,
                                       current_simulation_mode, current_foot,
                                       sensor)
                   [] OTHER ->
                        \E img \in SessionImages :
                           LET r == HandshakeApply(msg_data,
                                       current_simulation_mode, current_foot,
                                       sensor, img)
                           IN  StartStreaming("hs_message", initial_message,
                                       r.current_simulation_mode,
                                       r.current_foot, r.sensor)
       \/ /\ inbox = <<>>
          /\ conn = "open"
          /\ UNCHANGED inbox
          /\ \/ StartStreaming("hs_timeout", NoMsg, current_simulation_mode,
                               current_foot, sensor)
             \/ AbortHandshake("hs_fault", NoMsg)
       \/ /\ inbox = <<>>
          /\ conn = "closed"
          /\ UNCHANGED inbox
          /\ AbortHandshake("hs_closed", NoMsg)
    /\ UNCHANGED <<call, conn, payload, now, t0, wait>>

\* gather returned: finally clears running, the handler returns
Finish ==
    /\ state = "Streaming"
    /\ pcS = "done"
    /\ pcR = "done"
    /\ state' = "Closed"
    /\ running' = FALSE
    /\ UNCHANGED <<sensor, call, current_simulation_mode, current_foot,
                   pcS, pcR, conn, inbox, payload, now, t0, wait, hist>>

-----------------------------------------------------------------------------
(* send_frames, lines 161-188 *)

\* max without the clamp: the second argument
Max_unclamped(a, b) == b

Max(a, b) == IF a >= b THEN a ELSE b

\* a loop test that does not read the flag
SenderLoopTest_blind(run) == TRUE

\* the loop test of line 164
SenderLoopTest(run) == run

\* the loop test and, when it passes, lines 166-176: the sleep of the previous
\* tick returns (late milliseconds after its time), a frame is generated and
\* the payload is built (in b milliseconds)
SenderTickIn(builds, lates) ==
    /\ state = "Streaming"
    /\ pcS \in {"start", "sleep"}
    /\ IF SenderLoopTest(running)
       THEN /\ sensor.t < MaxTicks
            /\ \E noise \in SessionNoise(sensor.base), b \in builds,
                  late \in lates :
                  LET start == now + wait + late
                      r == get_frame(sensor, noise)
                  IN  /\ t0' = start
                      /\ now' = start + b
                      /\ sensor' = r.self
                      /\ payload' =
                            [simulation_mode |-> current_simulation_mode,
                             foot |-> current_foot,
                             timestamp |-> start + b,
                             rows |-> sensor.rows,
                             cols |-> sensor.cols,
                             data |-> ravel(r.frame)]
                      /\ hist' = [hist EXCEPT
                            !.prev = [t0 |-> t0,
                                      timestamp |-> hist.frame.timestamp],
                            !.frame =
                            [t |-> r.self.t,
                             timestamp |-> start + b,
                             simulation_mode |-> current_simulation_mode,
                             foot |-> current_foot,
                             sensor_mode |-> sensor.simulation_mode,
                             sensor_foot |-> sensor.foot,
                             offset |-> r.frame[1][1] - sensor.base[1][1]
                                        - Drift(r.self.t) - noise[1][1],
                             n |-> Received]]
            /\ pcS' = "send"
            /\ wait' = 0
       ELSE /\ pcS' = "done"
            /\ UNCHANGED <<sensor, payload, now, t0, wait, hist>>
    /\ UNCHANGED <<call, state, current_simulation_mode, current_foot,
                   running, pcR, conn, inbox>>

SenderTick == SenderTickIn(BuildTimes, SleepLates)

\* lines 178-188: the send completes (in d milliseconds) or raises
SenderSendIn(sends) ==
    /\ state = "Streaming"
    /\ pcS = "send"
    /\ \/ /\ conn = "open"
          /\ \E d \in sends :
                LET elapsed == (now + d) - t0
                IN  /\ now' = now + d
                    /\ wait' = Max(0, INTERVAL - elapsed)
                    /\ hist' = [hist EXCEPT !.elapsed = elapsed]
          /\ pcS' = "sleep"
          /\ UNCHANGED running
       \/ /\ conn = "open"
          /\ running' = FALSE
          /\ pcS' = "done"
          /\ hist' = [hist EXCEPT !.causes = @ \cup {"transport"}]
          /\ UNCHANGED <<now, wait>>
       \/ /\ conn = "closed"
          /\ running' = FALSE
          /\ pcS' = "done"
          /\ hist' = [hist EXCEPT !.causes = @ \cup {"transport"}]
          /\ UNCHANGED <<now, wait>>
    /\ payload' = NoPayload
    /\ UNCHANGED <<sensor, call, state, current_simulation_mode, current_foot,
                   pcR, conn, inbox, t0>>

SenderSend == SenderSendIn(SendTimes)

-----------------------------------------------------------------------------
(* receive_messages, lines 190-235 *)

\* a loop test that does not read running
LoopTest_blind(run) == "recv"

\* the loop test of line 193
LoopTest(run) == IF run THEN "recv" ELSE "done"

\* gather starts receive_messages after send_frames has run to its first await
ReceiverStart ==
    /\ state = "Streaming"
    /\ pcR = "start"
    /\ pcS # "start"
    /\ pcR' = LoopTest(running)
    /\ UNCHANGED <<sensor, call, state, current_simulation_mode, current_foot,
                   running, pcS, conn, inbox, payload, now, t0, wait, hist>>

\* receive_messages stops on an exception of line 229 or 232
ReceiverStop(cause, h) ==
    /\ running' = FALSE
    /\ pcR' = "done"
    /\ hist' = [h EXCEPT !.causes = @ \cup {cause}]
    /\ UNCHANGED <<sensor, current_simulation_mode, current_foot>>

\* wait_for(websocket.recv(), 0.1) returns a message: lines 197-225
ReceiverMessage ==
    /\ state = "Streaming"
    /\ pcR = "recv"
    /\ inbox # <<>>
    /\ inbox' = Tail(inbox)
    /\ LET message == Head(inbox)
           msg_data == json_loads(message)
           h == [hist EXCEPT !.last = Last("message", message)]
       IN  CASE msg_data.exc = "UnicodeDecodeError" ->
                  ReceiverStop("content", h)
             [] msg_data.exc = "none" /\ msg_data.isdict ->
                  \E img \in SessionImages :
                     LET r == ReceiveApply(msg_data, current_simulation_mode,
                                           current_foot, sensor, img)
                     IN  /\ current_simulation_mode' = r.current_simulation_mode
                         /\ current_foot' = r.current_foot
                         /\ sensor' = r.sensor
                         /\ pcR' = LoopTest(running)
                         /\ hist' = h
                         /\ UNCHANGED running
             [] OTHER ->
                  /\ pcR' = LoopTest(running)
                  /\ hist' = h
                  /\ UNCHANGED <<sensor, current_simulation_mode, current_foot,
                                 running>>
    /\ UNCHANGED <<call, state, pcS, conn, payload, now, t0, wait>>

\* wait_for raises TimeoutError (line 226): continue
ReceiverTimeout ==
    /\ state = "Streaming"
    /\ pcR = "recv"
    /\ inbox = <<>>
    /\ conn = "open"
    /\ pcR' = LoopTest(running)
    /\ UNCHANGED <<sensor, call, state, current_simulation_mode, current_foot,
                   running, pcS, conn, inbox, payload, now, t0, wait, hist>>

\* recv raises ConnectionClosed (line 229) or another exception (line 232)
ReceiverFault ==
    /\ state = "Streaming"
    /\ pcR = "recv"
    /\ inbox = <<>>
    /\ \/ conn = "closed" /\ ReceiverStop("transport", hist)
       \/ conn = "open" /\ ReceiverStop("transport", hist)
    /\ UNCHANGED <<call, state, pcS, conn, inbox, payload, now, t0, wait>>

-----------------------------------------------------------------------------

Next ==
    \/ ClientSend
    \/ ClientClose
    \/ Handshake
    \/ SenderTick
    \/ SenderSend
    \/ ReceiverStart
    \/ ReceiverMessage
    \/ ReceiverTimeout
    \/ ReceiverFault
    \/ Finish

Spec == Init /\ [][Next]_vars

\* the event loop runs every coroutine that can run: a send, a sleep and a
\* poll of at most 0.1 s all end
ReceiverStep == ReceiverMessage \/ ReceiverTimeout \/ ReceiverFault

\* the messages sent in the runs checked for termination: one that
\* changes both fields, one that is ignored, one that cannot be decoded
FairMessages ==
    {m \in Messages :
        \/ m.kind \in {"garbage", "bytes"}
        \/ m.simulation_mode = "alta_diferencia" /\ m.foot = "derecho"}

FairClientSend == ClientSendIn(FairMessages)

FairNext ==
    \/ FairClientSend
    \/ ClientClose
    \/ Handshake
    \/ SenderTick
    \/ SenderSend
    \/ ReceiverStart
    \/ ReceiverStep
    \/ Finish

\* the durations explored for the cadence of the sender: a tick faster and
\* a tick slower than the period, a sleep on time and a sleep that ends late
CadenceBuildTimes == {50, 150}
CadenceSendTimes == {50, 250}
CadenceSleepLates == {0, 20}

CadenceSenderTick == SenderTickIn(CadenceBuildTimes, CadenceSleepLates)

CadenceSenderSend == SenderSendIn(CadenceSendTimes)

CadenceNext ==
    \/ FairClientSend
    \/ ClientClose
    \/ Handshake
    \/ CadenceSenderTick
    \/ CadenceSenderSend
    \/ ReceiverStart
    \/ ReceiverStep
    \/ Finish

CadenceSpec == Init /\ [][CadenceNext]_vars

FairSpec ==
    /\ Init
    /\ [][FairNext]_vars
    /\ WF_vars(Handshake)
    /\ WF_vars(SenderTick)
    /\ WF_vars(SenderSend)
    /\ WF_vars(ReceiverStart)
    /\ WF_vars(ReceiverStep)
    /\ WF_vars(Finish)

-----------------------------------------------------------------------------
(* The sensor alone: any caller, any arguments *)

NoSession ==
    /\ state = "None"
    /\ current_simulation_mode = "baja_diferencia"
    /\ current_foot = "izquierdo"
    /\ running = FALSE
    /\ pcS = "idle"
    /\ pcR = "idle"
    /\ conn = "closed"
    /\ inbox = <<>>
    /\ payload = NoPayload
    /\ now = 0
    /\ t0 = 0
    /\ wait = 0
    /\ hist = InitHist

SensorInit ==
    /\ \E image_path \in {"pie_solo.jpg", "pie_izquierdo.png",
                           "pie_derecho.png"},
          img \in ImageOutcomes :
          sensor = NewSensor(image_path, Rows, Cols, img)
    /\ call = NoCall
    /\ NoSession

SensorSetConfig ==
    /\ \E simulation_mode \in ModeArgs, foot \in FootArgs,
          img \in ImageOutcomes :
          LET r == set_config(sensor, simulation_mode, foot, img)
          IN  /\ sensor' = r.self
              /\ call' = [op |-> "set_config",
                          simulation_mode |-> simulation_mode, foot |-> foot,
                          pre |-> sensor, changed |-> r.changed,
                          reloaded |-> r.reloaded, frame |-> <<>>,
                          noise |-> <<>>, prev_op |-> call.op,
                          prev_mode |-> call.simulation_mode,
                          prev_foot |-> call.foot]
    /\ UNCHANGED sessionVars

SensorGetFrame ==
    /\ sensor.t < MaxTicks
    /\ \E noise \in NoiseFields(sensor.base) :
          LET r == get_frame(sensor, noise)
          IN  /\ sensor' = r.self
              /\ call' = [op |-> "get_frame",
                          simulation_mode |-> None, foot |-> None,
                          pre |-> sensor, changed |-> FALSE,
                          reloaded |-> FALSE, frame |-> r.frame,
                          noise |-> noise, prev_op |-> call.op,
                          prev_mode |-> call.simulation_mode,
                          prev_foot |-> call.foot]
    /\ UNCHANGED sessionVars

SensorNext == SensorSetConfig \/ SensorGetFrame

SensorSpec == SensorInit /\ [][SensorNext]_vars

-----------------------------------------------------------------------------
(* Claims *)

\* C8: a call of set_config in which no argument is a recognized value
\* (each is None, empty or an unknown string) leaves the whole sensor as it
\* was (simulation_mode, foot, image_path, base, t), reloads nothing and
\* returns False.
SetConfigIgnoresUnrecognized ==
    (/\ call.op = "set_config"
     /\ call.simulation_mode \notin VALID_SIMULATION_MODES
     /\ call.foot \notin VALID_FEET)
    => (/\ sensor = call.pre
        /\ call.changed = FALSE
        /\ call.reloaded = FALSE)

\* an unknown mode and an unknown foot were passed to a sensor that had
\* left its initial configuration and generated a frame
SetConfigIgnoresUnrecognizedWitness ==
    /\ call.op = "set_config"
    /\ call.simulation_mode = "media_diferencia"
    /\ call.foot = "ambos"
    /\ sensor.foot = "derecho"
    /\ sensor.simulation_mode = "alta_diferencia"
    /\ sensor.t > 0

\* the offset of the rule table, by mode and foot
OffsetOf(mode, foot) ==
    CASE mode = "baja_diferencia" /\ foot = "izquierdo" -> -300
      [] mode = "baja_diferencia" /\ foot = "derecho" -> 300
      [] mode = "alta_diferencia" /\ foot = "izquierdo" -> -1500
      [] OTHER -> 0

DefaultConfig ==
    /\ current_simulation_mode = "baja_diferencia"
    /\ current_foot = "izquierdo"
    /\ sensor.simulation_mode = "baja_diferencia"
    /\ sensor.foot = "izquierdo"

\* the handshake ended by a timeout, or by a payload that is not a JSON
\* object ("value"), not JSON ("garbage") or not decodable ("bytes")
BadHandshake ==
    \/ hist.last.src = "hs_timeout"
    \/ /\ hist.last.src = "hs_message"
       /\ hist.last.msg.kind \in {"value", "garbage", "bytes"}

\* C1: after a handshake that timed out or got a payload that is not a
\* structured message or cannot be parsed, and as long as no loop has seen
\* the transport fail, the session is Streaming with both loops started and
\* the default configuration; it has not been closed by the handshake.
HandshakeNeverFails ==
    (BadHandshake /\ hist.causes = {})
    => (/\ state = "Streaming"
        /\ pcS # "idle"
        /\ pcR # "idle"
        /\ running
        /\ DefaultConfig)

\* a step of receive_messages that takes a payload that is not a JSON object
UnparsableReceived ==
    /\ state = "Streaming"
    /\ pcR = "recv"
    /\ inbox # <<>>
    /\ inbox' = Tail(inbox)
    /\ Head(inbox).kind \in {"value", "garbage", "bytes"}

\* C2: a payload received during Streaming that cannot be parsed as the
\* expected structure changes neither the session's configuration nor the
\* sensor, does not clear running, and leaves the receiver polling and the
\* sender where it was.
MalformedIgnored ==
    [][UnparsableReceived
        => (/\ UNCHANGED <<sensor, current_simulation_mode, current_foot,
                           running, pcS, state>>
            /\ pcR' = (IF running THEN "recv" ELSE "done"))]_vars

\* C3: during Streaming running is cleared only once a loop has seen the
\* connection closed or the transport fail; never by a poll timeout and
\* never by what an inbound message contains.
StopOnlyOnTransport ==
    /\ (state = "Streaming" /\ ~running) => "transport" \in hist.causes
    /\ "content" \notin hist.causes

\* C4: once a loop has cleared running during Streaming, the other loop
\* leaves at its next loop test (the receiver when its poll ends, the sender
\* when its sleep ends), and the session ends up Closed with both loops done.
StopPropagation ==
    /\ [][(~running /\ pcR' # pcR) => pcR' = "done"]_vars
    /\ [][(~running /\ pcS \in {"start", "sleep"} /\ pcS' # pcS)
            => pcS' = "done"]_vars
    /\ (state = "Streaming" /\ ~running)
          ~> (state = "Closed" /\ pcS = "done" /\ pcR = "done")

\* the session was closed after the sender saw the transport fail while the
\* receiver was polling
StopPropagationWitness ==
    /\ state = "Closed"
    /\ pcS = "done"
    /\ pcR = "done"
    /\ hist.causes = {"transport"}
    /\ hist.frame.t > 0
    /\ hist.last.src = "message"

\* the last inbound message was handled by receive_messages and has a
\* recognized mode and a recognized foot
BothFieldsUpdate ==
    /\ hist.last.src = "message"
    /\ hist.last.msg.kind = "object"
    /\ hist.last.msg.simulation_mode \in VALID_SIMULATION_MODES
    /\ hist.last.msg.foot \in VALID_FEET

\* the last frame was generated after the message before the last one
FrameAroundLast == hist.frame.t > 0 /\ hist.frame.n >= Received - 1

\* C5: a frame generated around a message that carries a recognized mode and
\* a recognized foot has, in its tags, in the sensor configuration it was
\* computed from and in its offset, either the pair of values from before the
\* message or the pair of the message, never one field of each.
AtomicPerMessage ==
    (BothFieldsUpdate /\ FrameAroundLast)
    => LET l == hist.last
           f == hist.frame
           new == <<l.msg.simulation_mode, l.msg.foot>>
       IN  \/ /\ <<f.simulation_mode, f.foot>> = <<l.old_mode, l.old_foot>>
              /\ <<f.sensor_mode, f.sensor_foot>>
                    = <<l.old_sensor_mode, l.old_sensor_foot>>
              /\ f.offset = OffsetOf(l.old_mode, l.old_foot)
           \/ /\ <<f.simulation_mode, f.foot>> = new
              /\ <<f.sensor_mode, f.sensor_foot>> = new
              /\ f.offset = OffsetOf(new[1], new[2])

\* a message changed both fields and a frame was generated after it
AtomicPerMessageWitness ==
    /\ BothFieldsUpdate
    /\ hist.last.msg.simulation_mode # hist.last.old_mode
    /\ hist.last.msg.foot # hist.last.old_foot
    /\ hist.frame.t > 1
    /\ hist.frame.n = Received
    /\ pcS = "send"

\* the last inbound message was handled by receive_messages and has at
\* least one recognized value
ValidUpdate ==
    /\ hist.last.src = "message"
    /\ hist.last.msg.kind = "object"
    /\ \/ hist.last.msg.simulation_mode \in VALID_SIMULATION_MODES
       \/ hist.last.msg.foot \in VALID_FEET

\* C6: a frame generated before a valid update (and after the message
\* before it) has the old mode, foot and offset; a frame generated after the
\* update, from the sender's next tick on, has the new mode, foot and offset.
UpdateVisibility ==
    (ValidUpdate /\ hist.frame.t > 0)
    => LET l == hist.last
           f == hist.frame
           mode == After(l.msg.simulation_mode, VALID_SIMULATION_MODES,
                         l.old_mode)
           foot == After(l.msg.foot, VALID_FEET, l.old_foot)
       IN  /\ f.n = Received - 1
                => /\ f.simulation_mode = l.old_mode
                   /\ f.foot = l.old_foot
                   /\ f.offset = OffsetOf(l.old_mode, l.old_foot)
           /\ f.n = Received
                => /\ f.simulation_mode = mode
                   /\ f.foot = foot
                   /\ f.offset = OffsetOf(mode, foot)

\* a frame with the old mode was generated, the mode was then changed by a
\* message, and the next tick generated a frame with the new offset
UpdateVisibilityWitness ==
    /\ ValidUpdate
    /\ hist.last.msg.simulation_mode = "alta_diferencia"
    /\ hist.last.old_mode = "baja_diferencia"
    /\ hist.frame.t = 2
    /\ hist.frame.n = Received
    /\ hist.frame.offset = OffsetOf("alta_diferencia", hist.frame.foot)

\* the handshake got a JSON object and no other message has been handled
ObjectHandshake ==
    /\ hist.last.src = "hs_message"
    /\ hist.last.msg.kind = "object"

\* C7: nothing is generated or sent during the Handshake; after a handshake
\* message that is a JSON object, the first frame (generated, in flight and
\* sent) is tagged with and computed from the message's recognized values
\* and the defaults for the other fields.
HandshakeBeforeStream ==
    /\ state = "Handshake"
         => (sensor.t = 0 /\ payload = NoPayload /\ pcS = "idle"
             /\ hist.frame = NoFrame)
    /\ (ObjectHandshake /\ hist.frame.t = 1)
         => LET m == hist.last.msg
                f == hist.frame
                mode == After(m.simulation_mode, VALID_SIMULATION_MODES,
                              "baja_diferencia")
                foot == After(m.foot, VALID_FEET, "izquierdo")
            IN  /\ f.simulation_mode = mode
                /\ f.foot = foot
                /\ f.sensor_mode = mode
                /\ f.sensor_foot = foot
                /\ f.offset = OffsetOf(mode, foot)
                /\ pcS = "send"
                     => (payload.simulation_mode = mode /\ payload.foot = foot)

\* the handshake got {"foot": "derecho"} and the first frame has been sent
HandshakeBeforeStreamWitness ==
    /\ ObjectHandshake
    /\ hist.last.msg.foot = "derecho"
    /\ hist.last.msg.simulation_mode = Absent
    /\ hist.frame.t = 1
    /\ hist.frame.foot = "derecho"
    /\ hist.frame.simulation_mode = "baja_diferencia"
    /\ pcS = "sleep"

\* the last inbound message is a JSON object with one recognized value and
\* one unrecognized value
MixedMessage ==
    /\ hist.last.src \in {"hs_message", "message"}
    /\ hist.last.msg.kind = "object"
    /\ \/ /\ hist.last.msg.simulation_mode \in VALID_SIMULATION_MODES
          /\ hist.last.msg.foot \notin VALID_FEET \cup {Absent}
       \/ /\ hist.last.msg.simulation_mode
                \notin VALID_SIMULATION_MODES \cup {Absent}
          /\ hist.last.msg.foot \in VALID_FEET

\* C9: after a message (of the handshake or of streaming) with one
\* recognized and one unrecognized value, the recognized one is the value of
\* that field in the session and in the sensor, the other field is as it was
\* before, and the session goes on (running is cleared only by the transport).
PerFieldHandling ==
    MixedMessage
    => LET l == hist.last
       IN  /\ current_simulation_mode
                = After(l.msg.simulation_mode, VALID_SIMULATION_MODES,
                        l.old_mode)
           /\ sensor.simulation_mode
                = After(l.msg.simulation_mode, VALID_SIMULATION_MODES,
                        l.old_sensor_mode)
           /\ current_foot = After(l.msg.foot, VALID_FEET, l.old_foot)
           /\ sensor.foot = After(l.msg.foot, VALID_FEET, l.old_sensor_foot)
           /\ hist.causes = {} => (running /\ state = "Streaming")

\* receive_messages handled {"simulation_mode": "alta_diferencia",
\* "foot": "ambos"} after the foot had been set to derecho
PerFieldHandlingWitness ==
    /\ MixedMessage
    /\ hist.last.src = "message"
    /\ hist.last.msg.foot = "ambos"
    /\ hist.last.old_mode = "baja_diferencia"
    /\ current_simulation_mode = "alta_diferencia"
    /\ current_foot = "derecho"
    /\ running

\* C10: the session's configuration and the sensor's are always a pair of
\* recognized values, and are the defaults until the handshake ends.
ConfigValid ==
    /\ current_simulation_mode \in VALID_SIMULATION_MODES
    /\ current_foot \in VALID_FEET
    /\ sensor.simulation_mode \in VALID_SIMULATION_MODES
    /\ sensor.foot \in VALID_FEET
    /\ state = "Handshake" => DefaultConfig

\* receive_messages has handled a message with two unrecognized values after
\* the configuration had left the defaults
ConfigValidWitness ==
    /\ hist.last.src = "message"
    /\ hist.last.msg.simulation_mode = "media_diferencia"
    /\ hist.last.msg.foot = "ambos"
    /\ current_simulation_mode = "alta_diferencia"
    /\ current_foot = "derecho"
    /\ hist.frame.t > 0

SetConfigNoOpOnEqual ==
    /\ (/\ call.op = "set_config"
        /\ call.simulation_mode \in {None, call.pre.simulation_mode}
        /\ call.foot \in {None, call.pre.foot}
        /\ <<call.simulation_mode, call.foot>> # <<None, None>>)
       => (sensor = call.pre /\ ~call.changed /\ ~call.reloaded)
    /\ (/\ call.op = "set_config"
        /\ call.prev_op = "set_config"
        /\ call.prev_mode = call.simulation_mode
        /\ call.prev_foot = call.foot)
       => (sensor = call.pre /\ ~call.changed /\ ~call.reloaded)

\* set_config("alta_diferencia", "derecho") was called twice in a row
SetConfigNoOpOnEqualWitness ==
    /\ call.op = "set_config"
    /\ call.prev_op = "set_config"
    /\ call.simulation_mode = "alta_diferencia"
    /\ call.foot = "derecho"
    /\ call.prev_mode = "alta_diferencia"
    /\ call.prev_foot = "derecho"
    /\ sensor.foot = "derecho"
    /\ sensor.image_path = "pie_derecho.png"
    /\ ~call.reloaded

\* the image of each foot
FootImage(foot) ==
    IF foot = "izquierdo" THEN "pie_izquierdo.png" ELSE "pie_derecho.png"

\* the last call is set_config with a recognized foot that was not the
\* sensor's
FootChange ==
    /\ call.op = "set_config"
    /\ call.foot \in VALID_FEET
    /\ call.foot # call.pre.foot

\* C13, as stated: set_config with a recognized foot X that is not the
\* current one sets foot to X, loads the base matrix from the image of X and
\* returns True.
FootChangeReloads ==
    FootChange
    => (/\ sensor.foot = call.foot
        /\ call.changed
        /\ call.reloaded
        /\ sensor.image_path = FootImage(call.foot)
        /\ sensor.loaded = FootImage(call.foot))

\* C13, amended: set_config with a recognized foot X that is not the current
\* one sets foot to X and returns True; the image of X is the image_path and
\* the image the base matrix was last loaded from; it is loaded by this call
\* exactly when it was not the image_path before.
FootChangeReloadsUnlessLoaded ==
    FootChange
    => (/\ sensor.foot = call.foot
        /\ call.changed
        /\ sensor.image_path = FootImage(call.foot)
        /\ sensor.loaded = FootImage(call.foot)
        /\ call.reloaded <=> (call.pre.image_path # FootImage(call.foot)))

\* the foot went from izquierdo to derecho and back, each time with a load
FootChangeReloadsWitness ==
    /\ FootChange
    /\ call.foot = "izquierdo"
    /\ call.pre.image_path = "pie_derecho.png"
    /\ call.pre.loaded = "pie_derecho.png"
    /\ call.reloaded
    /\ sensor.loaded = "pie_izquierdo.png"
    /\ sensor.t > 0

\* C14: the wait of every tick is max(0, period - elapsed), with a period of
\* 250 ms, and is never negative; a tick starts at least one period after the
\* tick before; the timestamps of the frames never decrease.
SenderCadence ==
    /\ INTERVAL = 250
    /\ wait >= 0
    /\ pcS = "sleep"
         => /\ hist.elapsed = now - t0
            /\ wait = (IF hist.elapsed < 250 THEN 250 - hist.elapsed ELSE 0)
    /\ hist.frame.t >= 2
         => /\ t0 - hist.prev.t0 >= 250
            /\ hist.frame.timestamp >= hist.prev.timestamp

\* a tick that took longer than the period (no wait) was followed by a tick
\* that took less (a wait)
SenderCadenceWitness ==
    /\ hist.frame.t >= 2
    /\ pcS = "sleep"
    /\ wait > 0
    /\ t0 - hist.prev.t0 > 250

\* the matrix m has rows rows of cols values
HasShape(m, rows, cols) ==
    /\ Len(m) = rows
    /\ \A i \in 1..Len(m) : Len(m[i]) = cols

\* C15: the base matrix always has the shape rows x cols fixed at
\* construction, every frame get_frame returns has that shape, and the data
\* of every payload has rows * cols values, the rows and cols of the payload.
ShapeInvariant ==
    /\ sensor.rows = Rows
    /\ sensor.cols = Cols
    /\ HasShape(sensor.base, sensor.rows, sensor.cols)
    /\ call.op = "get_frame" => HasShape(call.frame, sensor.rows, sensor.cols)
    /\ pcS = "send"
         => /\ payload.rows = sensor.rows
            /\ payload.cols = sensor.cols
            /\ Len(payload.data) = payload.rows * payload.cols

\* a payload built after the foot changed and the image of the new foot was
\* absent
ShapeInvariantWitness ==
    /\ pcS = "send"
    /\ Len(payload.data) = Rows * Cols
    /\ sensor.foot = "derecho"
    /\ sensor.loaded = "pie_derecho.png"
    /\ \A i \in 1..Rows : \A j \in 1..Cols :
          sensor.base[i][j] = (temp_min + temp_max) \div 2

RECURSIVE SeqSum(_)
SeqSum(s) == IF s = <<>> THEN 0 ELSE Head(s) + SeqSum(Tail(s))

\* the sum of the values of a matrix: its mean times rows * cols
Total(m) == SeqSum(ravel(m))

\* the noise term removed
ZeroNoise(base) == [i \in 1..Len(base) |-> [j \in 1..Len(base[i]) |-> 0]]

\* set_config has just turned an izquierdo sensor in baja_diferencia into a
\* derecho sensor in baja_diferencia; call.pre is the izquierdo sensor, at
\* the same phase t
LeftRightCase ==
    /\ call.op = "set_config"
    /\ call.pre.simulation_mode = "baja_diferencia"
    /\ call.pre.foot = "izquierdo"
    /\ sensor.simulation_mode = "baja_diferencia"
    /\ sensor.foot = "derecho"
    /\ sensor.t = call.pre.t

\* sum of the derecho frame minus sum of the izquierdo frame, without noise
LeftRightGap ==
    Total(get_frame(sensor, ZeroNoise(sensor.base)).frame)
    - Total(get_frame(call.pre, ZeroNoise(call.pre.base)).frame)

\* C16 as stated: without noise, in baja_diferencia the mean of a derecho
\* frame exceeds the mean of an izquierdo frame of the same phase by 0.6
\* degrees (600 thousandths).
LeftRightDifference ==
    LeftRightCase => LeftRightGap = 600 * Rows * Cols

\* C16 amended: without noise, in baja_diferencia the mean of a derecho frame
\* exceeds the mean of an izquierdo frame of the same phase by 0.6 degrees
\* plus the mean of the base matrix of the derecho sensor minus the mean of
\* the base matrix of the izquierdo sensor; by exactly 0.6 degrees when the
\* two base matrices have the same mean.
LeftRightDifferenceOfBases ==
    LeftRightCase
      => /\ LeftRightGap = 600 * Rows * Cols
                           + Total(sensor.base) - Total(call.pre.base)
         /\ Total(sensor.base) = Total(call.pre.base)
              => LeftRightGap = 600 * Rows * Cols

\* the change of foot loaded a picture of another mean
LeftRightDifferenceWitness ==
    /\ LeftRightCase
    /\ call.reloaded
    /\ call.pre.image_path = "pie_izquierdo.png"
    /\ Total(sensor.base) # Total(call.pre.base)

\* C17: the mode and the foot of the session always equal the mode and the
\* foot of the sensor, so every frame is tagged, in its payload, with the
\* configuration get_frame computed its offset from.
TagConsistency ==
    /\ current_simulation_mode = sensor.simulation_mode
    /\ current_foot = sensor.foot
    /\ hist.frame.t >= 1
         => /\ hist.frame.simulation_mode = hist.frame.sensor_mode
            /\ hist.frame.foot = hist.frame.sensor_foot
            /\ hist.frame.offset
                 = OffsetOf(hist.frame.simulation_mode, hist.frame.foot)
    /\ pcS = "send"
         => /\ payload.simulation_mode = hist.frame.sensor_mode
            /\ payload.foot = hist.frame.sensor_foot

\* a frame built after a message of the streaming phase changed both values
TagConsistencyWitness ==
    /\ pcS = "send"
    /\ hist.last.src = "message"
    /\ hist.frame.n = hist.sent
    /\ hist.sent >= 2
    /\ payload.simulation_mode = "alta_diferencia"
    /\ payload.foot = "derecho"
    /\ hist.last.old_mode = "baja_diferencia"
    /\ hist.last.old_foot = "izquierdo"

\* C18: in every state of a session the image_path of the sensor is the file
\* of its foot (izquierdo: pie_izquierdo.png, derecho: pie_derecho.png) and
\* the base matrix is the one loaded from that file.
ImageMatchesFoot ==
    /\ sensor.foot \in VALID_FEET
    /\ sensor.image_path = FootImage(sensor.foot)
    /\ sensor.loaded = sensor.image_path

\* a frame can be generated after a valid and then an invalid update of the
\* foot
ImageMatchesFootWitness ==
    /\ state = "Streaming"
    /\ running
    /\ pcS = "sleep"
    /\ sensor.t < MaxTicks
    /\ sensor.foot = "derecho"
    /\ hist.last.old_foot = "derecho"
    /\ hist.last.msg.foot = "ambos"

\* C19: once running is False it stays False, and from then on get_frame is
\* not called and no payload is built: the phase t and the last generated
\* frame do not change and the payload only goes from the one in flight to
\* none.
NoFrameAfterStop ==
    [][~running
         => /\ ~running'
            /\ sensor'.t = sensor.t
            /\ hist'.frame = hist.frame
            /\ payload' = payload \/ payload' = NoPayload]_vars

\* the receiver set the stop signal while a send was in flight
NoFrameAfterStopWitness ==
    /\ state = "Streaming"
    /\ ~running
    /\ pcS = "send"
    /\ pcR = "done"
    /\ payload # NoPayload

====
